---- MODULE Spec2Model ----
(***************************************************************************)
(* A model of gdnative-project-utils: the source scanner (src/src/scan.rs) *)
(* and the resource generator (src/src/generate.rs).                       *)
(*                                                                         *)
(* A path is a record [abs, comps] of its components. A text that the code *)
(* takes apart or puts together (a library name, a rendered line) is a     *)
(* sequence of chunks, a chunk being an atomic piece of text.              *)
(***************************************************************************)
EXTENDS Integers, Sequences, FiniteSets, TLC

VARIABLES
    \* ---- scanner (scan_crate) ----
    walk,         \* what ignore::Walk yields for the directory, in walk order
    wpos,         \* position of the for loop over the walk
    paths,        \* the .rs files the walk collected so far, in walk order
    pos,          \* position of the iterator over paths
    acc,          \* the accumulator of try_fold
    nread,        \* number of files read so far in this pass
    spc,          \* "walk" | "fold" | "done"
    scanResult,   \* the value scan_crate returned
    pass,         \* number of the current scan_crate call
    firstResult,  \* the value the first call returned
    \* ---- generator (Builder::build) and the disk ----
    cfg,          \* the Builder's fields
    classes,      \* the argument of build
    dirs,         \* the directories on disk
    files,        \* the regular files on disk: path -> content
    gpc,          \* "new" | "idle" | "manifest" | "descriptors" | "writing" | "ok"
                  \* | "err" | "panic" | "killed"
    writing,      \* the std::fs::write under way: {} or {[path, content]}
    tornPaths,    \* history: the files a kill inside std::fs::write left unfinished
    outDir,       \* godot_resource_output_dir of the running build
    pending,      \* the names the for loop has not yet taken
    runs,         \* number of build calls so far
    interrupts,   \* number of runs killed so far
    lastEnd,      \* how the previous run ended
    dirs0,        \* history: the directories before the first run
    files0,       \* history: the files before the first run
    filesAtStart  \* history: the files when the current run started

scanVars == <<walk, wpos, paths, pos, acc, nread, spc, scanResult, pass, firstResult>>

genVars == <<gpc, pending, runs, interrupts, lastEnd, outDir, cfg, classes, dirs,
             files, writing, tornPaths, dirs0, files0, filesAtStart>>

vars == <<genVars, scanVars>>

\* ------------------------------------------------------------------ bounds

MaxFiles == 2

MaxPasses == 2

MaxRuns == 2

MaxInterrupts == 1

\* The longest part of a file, in lines, that a kill inside a write leaves.
MaxPartLines == 1

\* ------------------------------------------------------- generic helpers

Range(s) == {s[i] : i \in 1..Len(s)}

Last(s) == s[Len(s)]

Front(s) == SubSeq(s, 1, Len(s) - 1)

SeqsUpTo(S, n) == UNION {[1..k -> S] : k \in 0..n}

Bijections(n) == {p \in [1..n -> 1..n] : \A i, j \in 1..n : p[i] = p[j] => i = j}

PermsOf(s) == {[i \in 1..Len(s) |-> s[p[i]]] : p \in Bijections(Len(s))}

\* ---------------------------------------------------- syntax trees (syn)

\* proc_macro2::TokenTree; span is the source line of the token.
Ident(s, span) == [t |-> "Ident", s |-> s, stream |-> <<>>, span |-> span]

Punct(s, span) == [t |-> "Punct", s |-> s, stream |-> <<>>, span |-> span]

Literal(s, span) == [t |-> "Literal", s |-> s, stream |-> <<>>, span |-> span]

Group(stream, span) == [t |-> "Group", s |-> "", stream |-> stream, span |-> span]

\* syn::Attribute: #[path tokens]
Attr(path, tokens) == [path |-> path, tokens |-> tokens]

\* syn::Item: a declaration with attributes, an identifier and nested items
\* (the content of a module, the items among the statements of a function body).
Item(kind, ident, attrs, items) ==
    [kind |-> kind, ident |-> ident, attrs |-> attrs, items |-> items]

\* What std::fs::read_to_string and syn::parse_file give for a path.
ParsedFile(items) == [status |-> "ok", err |-> "", items |-> items]

UnreadableFile(err) == [status |-> "read_err", err |-> err, items |-> <<>>]

UnparsableFile(err) == [status |-> "parse_err", err |-> err, items |-> <<>>]

\* What ignore::Walk yields: Ok(entry), a path with its extension and, for a
\* file, what reading and parsing it gives; or Err(ignore::Error).
WalkOk(ext, file) == [err |-> "", ext |-> ext, file |-> file]

WalkErr(msg) == [err |-> msg, ext |-> "", file |-> UnreadableFile(msg)]

\* Result values: Ok(classes) and Err(ScanError) / Err(syn::Error).
Ok(found) == [ok |-> TRUE, classes |-> found, kind |-> "", msgs |-> <<>>]

Err(kind, msgs) == [ok |-> FALSE, classes |-> {}, kind |-> kind, msgs |-> msgs]

\* ---------------------------------------------------------- find_classes

\* The tokens of the derive attributes, in the order the two loops visit them.
RECURSIVE DeriveTokens(_)
DeriveTokens(attrs) ==
    IF attrs = <<>> THEN <<>>
    ELSE (IF Head(attrs).path = "derive" THEN Head(attrs).tokens ELSE <<>>)
         \o DeriveTokens(Tail(attrs))

GroupHasNativeClass(g) ==
    \E i \in 1..Len(g.stream) :
        g.stream[i].t = "Ident" /\ g.stream[i].s = "NativeClass"

\* derives_nativeclass: Err at the first token of a derive attribute that is
\* no group, otherwise Ok(whether some group holds the identifier).
DerivesNativeClass(attrs) ==
    LET toks == DeriveTokens(attrs)
        bad  == {i \in 1..Len(toks) : toks[i].t # "Group"}
    IN  IF bad # {}
        THEN LET i == CHOOSE i \in bad : \A j \in bad : i <= j
             IN  [ok |-> FALSE, res |-> FALSE,
                  err |-> [msg |-> "Unexpected #[derive attribute]", span |-> toks[i].span]]
        ELSE [ok |-> TRUE,
              res |-> \E i \in 1..Len(toks) : GroupHasNativeClass(toks[i]),
              err |-> [msg |-> "", span |-> 0]]

\* visit_item_struct / visit_item_enum: the body before descending.
VisitDecl(vis, item) ==
    LET d == DerivesNativeClass(item.attrs)
    IN  IF ~d.ok THEN [vis EXCEPT !.errors = Append(@, d.err)]
        ELSE IF d.res THEN [vis EXCEPT !.classes = @ \cup {item.ident}]
        ELSE vis

VisitedKinds_StructOnly == {"struct"}

VisitedKinds == {"struct", "enum"}

\* syn::visit::visit_file: items in order, each before its nested items.
RECURSIVE VisitItems(_, _)
VisitItems(vis, items) ==
    IF items = <<>> THEN vis
    ELSE LET it == Head(items)
             v1 == IF it.kind \in VisitedKinds THEN VisitDecl(vis, it) ELSE vis
             v2 == VisitItems(v1, it.items)
         IN  VisitItems(v2, Tail(items))

\* The tail of find_classes: the last error absorbs the others, in order.
CombineErrors(errors) == <<Last(errors)>> \o Front(errors)

FindClasses(file) ==
    LET vis == VisitItems([classes |-> {}, errors |-> <<>>], file.items)
    IN  IF vis.errors = <<>> THEN Ok(vis.classes)
        ELSE Err("Parse", CombineErrors(vis.errors))

\* The closure mapped over the paths: read, parse, find_classes.
ProcessFile(f) ==
    IF f.status = "read_err" THEN Err("ReadFile", <<[msg |-> f.err, span |-> 0]>>)
    ELSE IF f.status = "parse_err" THEN Err("Parse", <<[msg |-> f.err, span |-> 0]>>)
    ELSE FindClasses(f)

FoldOk_Overwrite(a, found) == found

\* The closure of try_fold on an Ok item.
FoldOk(a, found) == a \cup found

\* ------------------------------------------------------ paths and strings

\* A one-chunk text.
S(x) == <<x>>

\* format!: the chunks put together into one string.
RECURSIVE Text(_)
Text(str) == IF str = <<>> THEN "" ELSE Head(str) \o Text(Tail(str))

AbsPath(comps) == [abs |-> TRUE, comps |-> comps]

RelPath(comps) == [abs |-> FALSE, comps |-> comps]

ParentDir == ".."

CurDir == "."

\* Path::join with a relative one-component name.
Join(p, name) == [p EXCEPT !.comps = Append(@, name)]

\* The loop of pathdiff::diff_paths over the components left of path (a) and
\* of base (b); comps is what it has pushed. The result is an Option, written
\* as a set: {} for None, {comps} for Some.
RECURSIVE DiffComps(_, _, _)
DiffComps(a, b, comps) ==
    IF a = <<>> /\ b = <<>> THEN {comps}
    ELSE IF b = <<>> THEN {comps \o a}
    ELSE IF a = <<>> THEN DiffComps(<<>>, Tail(b), Append(comps, ParentDir))
    ELSE IF comps = <<>> /\ Head(a) = Head(b) THEN DiffComps(Tail(a), Tail(b), comps)
    ELSE IF Head(b) = CurDir THEN DiffComps(Tail(a), Tail(b), Append(comps, Head(a)))
    ELSE IF Head(b) = ParentDir THEN {}
    ELSE {comps \o [i \in 1..Len(b) |-> ParentDir] \o a}

\* pathdiff::diff_paths(path, base) for two absolute paths.
DiffPaths(path, base) == {RelPath(c) : c \in DiffComps(path.comps, base.comps, <<>>)}

\* Option::expect on a Some.
Unwrap(opt) == CHOOSE x \in opt : TRUE

\* Path::starts_with("../"): the first component is the parent directory.
StartsWithParent_Never(p) == FALSE

StartsWithParent(p) == ~p.abs /\ p.comps # <<>> /\ Head(p.comps) = ParentDir

\* The components with a forward slash between each two.
SlashJoin(comps) ==
    [i \in 1..(IF comps = <<>> THEN 0 ELSE 2 * Len(comps) - 1) |->
        IF i % 2 = 1 THEN comps[(i + 1) \div 2] ELSE "/"]

\* PathExt::to_slash_lossy: the components joined by forward slashes.
ToSlashLossy(p) == (IF p.abs THEN S("/") ELSE <<>>) \o SlashJoin(p.comps)

\* ------------------------------------------------------------ the disk

Exists(p) == p \in dirs \/ p \in DOMAIN files

\* Path::canonicalize().ok() of an absolute path without links: Some(path)
\* when something is there, None otherwise (an Option as a set).
Canonicalize(p) == IF Exists(p) THEN {p} ELSE {}

FileExists_Never(p) == FALSE

FileExists_AnyKind(p) == p \in dirs \/ p \in DOMAIN files

\* path.exists() && path.is_file()
FileExists(p) == p \in DOMAIN files

Ancestors(p) == {AbsPath(SubSeq(p.comps, 1, k)) : k \in 0..Len(p.comps)}

\* std::fs::create_dir_all succeeds unless a regular file is in the way.
CreateDirAllOk(p) == \A a \in Ancestors(p) : a \notin DOMAIN files

\* std::fs::write succeeds unless the path is a directory or its parent is none.
WriteOk(p) == p \notin dirs /\ AbsPath(Front(p.comps)) \in dirs

\* The files after the file at p got this content: File::create leaves it
\* empty, write_all fills it.
Written(p, content) ==
    [q \in DOMAIN files \cup {p} |-> IF q = p THEN content ELSE files[q]]

\* ------------------------------------------------- the rendered resources

Line(sec, key, val) == [sec |-> sec, key |-> key, val |-> val]

ReplaceHyphen_Identity(name) == name

\* name.replace("-", "_")
ReplaceHyphen(name) == [i \in 1..Len(name) |-> IF name[i] = "-" THEN "_" ELSE name[i]]

ModePath(mode) == IF mode = "Debug" THEN "debug" ELSE "release"

\* common_binary_outputs
CommonBinaryOutputs(target, mode, name) ==
    LET n    == ReplaceHyphen(name)
        so   == Text(S("lib") \o n \o S(".so"))
        mp   == ModePath(mode)
    IN  [x11             |-> Join(Join(target, mp), so),
         osx             |-> Join(Join(target, mp), Text(S("lib") \o n \o S(".dylib"))),
         windows         |-> Join(Join(target, mp), Text(n \o S(".dll"))),
         android_armv7   |-> Join(Join(Join(target, "armv7-linux-androideabi"), mp), so),
         android_aarch64 |-> Join(Join(Join(target, "aarch64-linux-android"), mp), so),
         android_x86     |-> Join(Join(Join(target, "i686-linux-android"), mp), so),
         android_x86_64  |-> Join(Join(Join(target, "x86_64-linux-android"), mp), so)]

\* generate_gdnlib: the key/value lines of the manifest, in order.
GenerateGdnlib(prefix, b) ==
    <<Line("entry", "Android.armeabi-v7a", prefix \o ToSlashLossy(b.android_armv7)),
      Line("entry", "Android.arm64-v8a", prefix \o ToSlashLossy(b.android_aarch64)),
      Line("entry", "Android.x86", prefix \o ToSlashLossy(b.android_x86)),
      Line("entry", "Android.x86_64", prefix \o ToSlashLossy(b.android_x86_64)),
      Line("entry", "X11.64", prefix \o ToSlashLossy(b.x11)),
      Line("entry", "OSX.64", prefix \o ToSlashLossy(b.osx)),
      Line("entry", "Windows.64", prefix \o ToSlashLossy(b.windows)),
      Line("dependencies", "Android.armeabi-v7a", S("[  ]")),
      Line("dependencies", "Android.arm64-v8a", S("[  ]")),
      Line("dependencies", "Android.x86", S("[  ]")),
      Line("dependencies", "Android.x86_64", S("[  ]")),
      Line("dependencies", "X11.64", S("[  ]")),
      Line("dependencies", "OSX.64", S("[  ]")),
      Line("general", "singleton", S("false")),
      Line("general", "load_once", S("true")),
      Line("general", "symbol_prefix", S("godot_")),
      Line("general", "reloadable", S("true"))>>

GenerateGdns_NoScriptClass(prefix, gdnlibPath, name) ==
    <<Line("gd_resource", "type", S("NativeScript")),
      Line("gd_resource", "load_steps", S("2")),
      Line("gd_resource", "format", S("2")),
      Line("ext_resource", "path", prefix \o ToSlashLossy(gdnlibPath)),
      Line("ext_resource", "type", S("GDNativeLibrary")),
      Line("ext_resource", "id", S("1")),
      Line("resource", "class_name", S(name)),
      Line("resource", "script_class_name", S("")),
      Line("resource", "library", S("ExtResource( 1 )"))>>

GenerateGdns_NoPrefix(prefix, gdnlibPath, name) ==
    <<Line("gd_resource", "type", S("NativeScript")),
      Line("gd_resource", "load_steps", S("2")),
      Line("gd_resource", "format", S("2")),
      Line("ext_resource", "path", ToSlashLossy(gdnlibPath)),
      Line("ext_resource", "type", S("GDNativeLibrary")),
      Line("ext_resource", "id", S("1")),
      Line("resource", "class_name", S(name)),
      Line("resource", "script_class_name", S(name)),
      Line("resource", "library", S("ExtResource( 1 )"))>>

\* generate_gdns: the key/value lines of a class descriptor, in order.
GenerateGdns(prefix, gdnlibPath, name) ==
    <<Line("gd_resource", "type", S("NativeScript")),
      Line("gd_resource", "load_steps", S("2")),
      Line("gd_resource", "format", S("2")),
      Line("ext_resource", "path", prefix \o ToSlashLossy(gdnlibPath)),
      Line("ext_resource", "type", S("GDNativeLibrary")),
      Line("ext_resource", "id", S("1")),
      Line("resource", "class_name", S(name)),
      Line("resource", "script_class_name", S(name)),
      Line("resource", "library", S("ExtResource( 1 )"))>>

\* ------------------------------------------------------ Builder::build

\* godot_resource_output_dir: the configured directory when it canonicalizes,
\* otherwise <godot_project_dir>/native.
ResolveOutputDir(c) ==
    LET canon == UNION {Canonicalize(p) : p \in c.godot_resource_output_dir}
    IN  IF canon # {} THEN Unwrap(canon) ELSE Join(c.godot_project_dir, "native")

GdnlibPath(c, od) == Join(od, Text(c.lib_name \o S(".gdnlib")))

GdnsPath(od, name) == Join(od, Text(<<name, ".gdns">>))

\* The prefix and the path that stand for path p, seen from the project: the
\* absolute path when the relative one starts with "..", else res:// and the
\* relative path.
PrefixAndPath(p, rel) ==
    IF StartsWithParent(rel)
    THEN [prefix |-> <<>>, path |-> p]
    ELSE [prefix |-> S("res://"), path |-> rel]

\* The text of the manifest build writes: the binaries are computed once
\* (let binaries, line 167) and rendered.
GdnlibContent(c) ==
    LET pp == PrefixAndPath(c.target_dir,
                            Unwrap(DiffPaths(c.target_dir, c.godot_project_dir)))
    IN  CHOOSE gdnlib \in
            {GenerateGdnlib(pp.prefix, binaries) :
                binaries \in {CommonBinaryOutputs(pp.path, c.build_mode, c.lib_name)}} : TRUE

\* The text of the descriptor build writes for name.
GdnsContent(c, od, name) ==
    LET g  == GdnlibPath(c, od)
        pp == PrefixAndPath(g, Unwrap(DiffPaths(g, c.godot_project_dir)))
    IN  GenerateGdns(pp.prefix, pp.path, name)

\* Lines 105 to 144: the configuration is resolved and the output directory
\* created.
BuildStart ==
    /\ UNCHANGED scanVars
    /\ gpc \in {"idle", "ok", "err", "killed"}
    /\ runs < MaxRuns
    /\ LET od == ResolveOutputDir(cfg)
       IN  /\ outDir' = od
           /\ IF CreateDirAllOk(od)
              THEN dirs' = dirs \cup Ancestors(od) /\ gpc' = "manifest"
              ELSE dirs' = dirs /\ gpc' = "err"
    /\ runs' = runs + 1
    /\ lastEnd' = gpc
    /\ filesAtStart' = files
    /\ pending' = {}
    /\ UNCHANGED <<cfg, classes, files, writing, tornPaths, interrupts, dirs0, files0>>

\* Lines 146 to 175: unless a file is there the manifest is rendered and
\* std::fs::write begins: the file is created, empty.
BuildManifest ==
    /\ UNCHANGED scanVars
    /\ gpc = "manifest"
    /\ LET g == GdnlibPath(cfg, outDir)
       IN  IF DiffPaths(cfg.target_dir, cfg.godot_project_dir) = {}
           THEN gpc' = "panic" /\ UNCHANGED <<files, pending, writing>>
           ELSE IF FileExists(g)
           THEN gpc' = "descriptors" /\ pending' = classes /\ UNCHANGED <<files, writing>>
           ELSE IF WriteOk(g)
           THEN /\ files' = Written(g, <<>>)
                /\ writing' = {[path |-> g, content |-> GdnlibContent(cfg)]}
                /\ gpc' = "writing"
                /\ pending' = classes
           ELSE gpc' = "err" /\ UNCHANGED <<files, pending, writing>>
    /\ UNCHANGED <<cfg, classes, dirs, outDir, runs, interrupts, lastEnd, tornPaths,
                   dirs0, files0, filesAtStart>>

\* Lines 193 to 202: one turn of the loop over the names, which a HashSet
\* yields in any order; unless a file is there the descriptor is rendered
\* and std::fs::write begins.
BuildDescriptor ==
    /\ UNCHANGED scanVars
    /\ gpc = "descriptors"
    /\ \E name \in pending :
          LET path == GdnsPath(outDir, name)
          IN  IF FileExists(path)
              THEN pending' = pending \ {name} /\ UNCHANGED <<files, gpc, writing>>
              ELSE IF WriteOk(path)
              THEN /\ files' = Written(path, <<>>)
                   /\ writing' = {[path |-> path,
                                   content |-> GdnsContent(cfg, outDir, name)]}
                   /\ gpc' = "writing"
                   /\ pending' = pending \ {name}
              ELSE gpc' = "err" /\ UNCHANGED <<files, pending, writing>>
    /\ UNCHANGED <<cfg, classes, dirs, outDir, runs, interrupts, lastEnd, tornPaths,
                   dirs0, files0, filesAtStart>>

\* std::fs::write (lines 173 and 200), write_all: a write call puts only a
\* part of the content into the file.
WritePart ==
    /\ UNCHANGED scanVars
    /\ gpc = "writing"
    /\ \E w \in writing :
          \E k \in (Len(files[w.path]) + 1)..(Len(w.content) - 1) :
              /\ k <= MaxPartLines
              /\ files' = Written(w.path, SubSeq(w.content, 1, k))
    /\ UNCHANGED <<gpc, pending, writing, cfg, classes, dirs, outDir, runs, interrupts,
                   lastEnd, tornPaths, dirs0, files0, filesAtStart>>

\* std::fs::write (lines 173 and 200), write_all: the file holds the whole
\* content and the call returns.
WriteAll ==
    /\ UNCHANGED scanVars
    /\ gpc = "writing"
    /\ \E w \in writing : files' = Written(w.path, w.content)
    /\ writing' = {}
    /\ gpc' = "descriptors"
    /\ UNCHANGED <<pending, cfg, classes, dirs, outDir, runs, interrupts, lastEnd,
                   tornPaths, dirs0, files0, filesAtStart>>

\* Line 204: Ok(()).
BuildReturn ==
    /\ UNCHANGED scanVars
    /\ gpc = "descriptors"
    /\ pending = {}
    /\ gpc' = "ok"
    /\ UNCHANGED <<cfg, classes, dirs, files, writing, tornPaths, outDir, pending, runs,
                   interrupts, lastEnd, dirs0, files0, filesAtStart>>

\* The process is killed: between two steps of build, or inside
\* std::fs::write, which leaves the file empty or with a part of its content.
Interrupt ==
    /\ UNCHANGED scanVars
    /\ gpc \in {"manifest", "descriptors", "writing"}
    /\ interrupts < MaxInterrupts
    /\ gpc' = "killed"
    /\ interrupts' = interrupts + 1
    /\ tornPaths' = tornPaths \cup {w.path : w \in writing}
    /\ writing' = {}
    /\ UNCHANGED <<cfg, classes, dirs, files, outDir, pending, runs, lastEnd,
                   dirs0, files0, filesAtStart>>

\* ------------------------------------------ configurations and disks tried

ProjectDir == AbsPath(<<"home", "proj">>)

NativeDir == Join(ProjectDir, "native")

AssetsDir == Join(ProjectDir, "assets")

OutsideDir == AbsPath(<<"tmp", "out">>)

TargetDirs ==
    {Join(ProjectDir, "target"), Join(Join(ProjectDir, "rust"), "target"),
     AbsPath(<<"tmp", "target">>), AbsPath(<<"home">>)}

\* The configured output directory, an Option as a set.
OutputDirs == {{}, {NativeDir}, {AssetsDir}, {OutsideDir}}

LibNames == {<<"my", "-", "gd", "-", "lib">>, <<"generator", "_", "test">>}

BuildModes == {"Debug", "Release"}

ClassSets == {{}, {"Test"}, {"Test", "AnotherTest"}}

Configs ==
    [godot_project_dir : {ProjectDir}, godot_resource_output_dir : OutputDirs,
     target_dir : TargetDirs, lib_name : LibNames, build_mode : BuildModes]

\* A manifest or descriptor the user wrote or edited.
UserContent == <<Line("user", "edited", S("yes"))>>

\* What lies in the output directory od before the first run.
PreLayouts(c, od) ==
    {[d |-> {}, f |-> <<>>],
     [d |-> {}, f |-> (GdnlibPath(c, od) :> UserContent)],
     [d |-> {}, f |-> (GdnsPath(od, "Test") :> UserContent)],
     [d |-> {GdnsPath(od, "Test")}, f |-> <<>>],
     [d |-> {}, f |-> (GdnlibPath(c, od) :> UserContent)
                      @@ (GdnsPath(od, "AnotherTest") :> UserContent)]}

\* The disks tried for configuration c: the project and target directories
\* exist; the configured output directory and <project>/native exist or not,
\* or a regular file lies at <project>/native; an existing output directory is
\* empty or holds files of an earlier run.
Disks(c) ==
    LET base == Ancestors(ProjectDir) \cup Ancestors(c.target_dir)
                \cup Ancestors(AbsPath(<<"tmp">>))
        conf == c.godot_resource_output_dir \ {NativeDir}
        outStates == IF conf = {} THEN {"absent"} ELSE {"absent", "dir"}
        nativeStates(o) == IF o = "dir" THEN {"absent"} ELSE {"absent", "dir", "file"}
        od(o) == IF o = "dir" THEN Unwrap(conf) ELSE NativeDir
        bare(o, n) ==
            [d |-> base \cup (IF o = "dir" THEN Ancestors(Unwrap(conf)) ELSE {})
                        \cup (IF n = "dir" THEN {NativeDir} ELSE {}),
             f |-> IF n = "file" THEN (NativeDir :> UserContent) ELSE <<>>]
    IN  UNION {UNION {IF o = "dir" \/ n = "dir"
                      THEN {[d |-> bare(o, n).d \cup pre.d, f |-> pre.f]
                            : pre \in PreLayouts(c, od(o))}
                      ELSE {bare(o, n)}
                      : n \in nativeStates(o)}
               : o \in outStates}

\* Builder::new(): no field is set; nothing is known of the disk yet.
GenInit ==
    /\ cfg = [godot_project_dir |-> ProjectDir, godot_resource_output_dir |-> {},
              target_dir |-> ProjectDir, lib_name |-> <<>>, build_mode |-> "Debug"]
    /\ classes = {}
    /\ dirs = {}
    /\ files = <<>>
    /\ dirs0 = {}
    /\ files0 = <<>>
    /\ filesAtStart = <<>>
    /\ writing = {}
    /\ tornPaths = {}
    /\ gpc = "new"
    /\ outDir = ProjectDir
    /\ pending = {}
    /\ runs = 0
    /\ interrupts = 0
    /\ lastEnd = "idle"

\* The setters of Builder (lines 29 to 97) fix the configuration; the caller
\* holds the names to generate for, and the disk is as the user left it.
Configure ==
    /\ UNCHANGED scanVars
    /\ gpc = "new"
    /\ cfg' \in Configs
    /\ classes' \in ClassSets
    /\ \E disk \in Disks(cfg') :
          /\ dirs' = disk.d
          /\ files' = disk.f
          /\ dirs0' = disk.d
          /\ files0' = disk.f
          /\ filesAtStart' = disk.f
    /\ gpc' = "idle"
    /\ UNCHANGED <<outDir, pending, runs, interrupts, lastEnd, writing, tornPaths>>

\* No scan is under way.
ScanIdle ==
    /\ walk = <<>>
    /\ wpos = 1
    /\ paths = <<>>
    /\ pos = 1
    /\ acc = {}
    /\ nread = 0
    /\ spc = "done"
    /\ scanResult = Ok({})
    /\ pass = MaxPasses
    /\ firstResult = Ok({})

GenSpecInit == GenInit /\ ScanIdle

GenNext ==
    \/ Configure \/ BuildStart \/ BuildManifest \/ BuildDescriptor
    \/ WritePart \/ WriteAll \/ BuildReturn \/ Interrupt

\* The generator alone: build is called again and again on one disk.
GenSpec == GenSpecInit /\ [][GenNext]_vars

\* The next step of a started build.
BuildStep == BuildManifest \/ BuildDescriptor \/ WriteAll \/ BuildReturn

\* A started build runs on unless it is killed: the code is sequential and
\* every step of it terminates.
GenFairSpec == GenSpec /\ WF_vars(BuildStep)

\* ----------------------------------------------- properties of the generator

IsPrefixSeq(a, b) == Len(a) <= Len(b) /\ SubSeq(b, 1, Len(a)) = a

\* The target directory lies in the project directory.
TargetInProject == IsPrefixSeq(cfg.godot_project_dir.comps, cfg.target_dir.comps)

ManifestPath == GdnlibPath(cfg, outDir)

\* The std::fs::write of the file at p has returned: no write of it is under
\* way and no kill has cut one short.
WrittenWhole(p) == p \notin tornPaths /\ \A w \in writing : w.path # p

\* The manifest on disk was created by build, not found by it, and its write
\* has returned.
ManifestCreated ==
    /\ ManifestPath \in DOMAIN files
    /\ ManifestPath \notin DOMAIN files0
    /\ WrittenWhole(ManifestPath)

EntryLines == {l \in Range(files[ManifestPath]) : l.sec = "entry"}

\* How every binary path of the manifest must begin: res:// and the target
\* directory relative to the project, or the absolute target directory.
ExpectedBase ==
    IF TargetInProject
    THEN S("res://")
         \o SlashJoin(SubSeq(cfg.target_dir.comps, Len(cfg.godot_project_dir.comps) + 1,
                             Len(cfg.target_dir.comps)))
    ELSE S("/") \o SlashJoin(cfg.target_dir.comps)

\* C3: a step of build leaves every regular file that exists as it is, but
\* for the file that the write under way has itself created, which was not
\* there when the run began; and a run that follows a successful run changes
\* no file at all.
C3_ExistingFilesKept ==
    [][/\ \A p \in DOMAIN files :
             /\ p \in DOMAIN files'
             /\ \/ files'[p] = files[p]
                \/ p \notin DOMAIN filesAtStart /\ \E w \in writing : w.path = p
       /\ (lastEnd = "ok" /\ gpc \in {"manifest", "descriptors", "writing"})
              => files' = files]_vars

\* A second run ended after a successful first one that found a manifest of
\* the user and created descriptors.
C3_Witness ==
    /\ gpc = "ok" /\ runs = 2 /\ lastEnd = "ok"
    /\ ManifestPath \in DOMAIN files0 /\ files[ManifestPath] = UserContent
    /\ \E n \in classes : GdnsPath(outDir, n) \in DOMAIN files \ DOMAIN files0

\* C4: in a manifest build created, every binary path is res:// and a path
\* relative to the project without a ".." segment when the target directory
\* lies in the project, and otherwise the absolute target path without prefix.
C4_BinaryPathPrefix ==
    ManifestCreated =>
        \A l \in EntryLines :
            /\ IsPrefixSeq(ExpectedBase \o S("/"), l.val)
            /\ TargetInProject => (\A i \in 1..Len(l.val) : l.val[i] # "..")
            /\ ~TargetInProject => (l.val[1] = "/" /\ \A i \in 1..Len(l.val) : l.val[i] # "res://")

\* A created manifest for a target directory outside the project.
C4_Witness == ManifestCreated /\ ~TargetInProject /\ EntryLines # {}

\* The platforms: key of the manifest, target triple (none: <<>>), and the
\* parts of the file name around the library name.
Platforms ==
    {[key |-> "X11.64", triple |-> <<>>, pre |-> S("lib"), ext |-> S(".so")],
     [key |-> "OSX.64", triple |-> <<>>, pre |-> S("lib"), ext |-> S(".dylib")],
     [key |-> "Windows.64", triple |-> <<>>, pre |-> <<>>, ext |-> S(".dll")],
     [key |-> "Android.armeabi-v7a", triple |-> S("armv7-linux-androideabi/"),
      pre |-> S("lib"), ext |-> S(".so")],
     [key |-> "Android.arm64-v8a", triple |-> S("aarch64-linux-android/"),
      pre |-> S("lib"), ext |-> S(".so")],
     [key |-> "Android.x86", triple |-> S("i686-linux-android/"),
      pre |-> S("lib"), ext |-> S(".so")],
     [key |-> "Android.x86_64", triple |-> S("x86_64-linux-android/"),
      pre |-> S("lib"), ext |-> S(".so")]}

RECURSIVE Underscored(_)
Underscored(name) ==
    IF name = <<>> THEN <<>>
    ELSE <<IF Head(name) = "-" THEN "_" ELSE Head(name)>> \o Underscored(Tail(name))

\* The binary path of a platform, compared as text.
ExpectedBinary(pl) ==
    ExpectedBase \o S("/") \o pl.triple
    \o S(IF cfg.build_mode = "Debug" THEN "debug" ELSE "release") \o S("/")
    \o pl.pre \o Underscored(cfg.lib_name) \o pl.ext

\* C5: in a manifest build created, the binary path of each platform is the
\* artifact base, the target triple for the Android targets only, debug or
\* release, and the file name lib<n>.so, lib<n>.dylib or <n>.dll, n being the
\* library name with every hyphen replaced by an underscore (so that no
\* hyphen of the library name is left in a file name).
C5_BinaryPaths ==
    ManifestCreated =>
        /\ {l.key : l \in EntryLines} = {pl.key : pl \in Platforms}
        /\ \A pl \in Platforms : \A l \in EntryLines :
              l.key = pl.key =>
                  /\ Text(l.val) = Text(ExpectedBinary(pl))
                  /\ Last(l.val) = Text(pl.pre \o Underscored(cfg.lib_name) \o pl.ext)

\* A created manifest for a library name with hyphens, built for release.
C5_Witness ==
    /\ ManifestCreated
    /\ \E i \in 1..Len(cfg.lib_name) : cfg.lib_name[i] = "-"
    /\ cfg.build_mode = "Release"

IsDescriptorPath(p) ==
    p.comps # <<>> /\ Last(p.comps) \in {Text(<<n, ".gdns">>) : n \in {"Test", "AnotherTest"}}

\* The disk held no descriptor file when the run began.
NoDescriptorsBefore == \A p \in DOMAIN filesAtStart : ~IsDescriptorPath(p)

Field(content, sec, key) ==
    {content[i].val : i \in {j \in 1..Len(content) : content[j].sec = sec /\ content[j].key = key}}

\* C6: after a successful build on a disk that held no descriptor file, every
\* name has a regular file <outDir>/<name>.gdns whose class_name and
\* script_class_name are that name, and there is no other descriptor file.
C6_DescriptorPerName ==
    (gpc = "ok" /\ NoDescriptorsBefore) =>
        /\ \A n \in classes :
              /\ GdnsPath(outDir, n) \in DOMAIN files
              /\ Field(files[GdnsPath(outDir, n)], "resource", "class_name") = {S(n)}
              /\ Field(files[GdnsPath(outDir, n)], "resource", "script_class_name") = {S(n)}
        /\ {p \in DOMAIN files : IsDescriptorPath(p)} = {GdnsPath(outDir, n) : n \in classes}

\* A first successful build for two names on a disk without descriptors.
C6_Witness ==
    /\ gpc = "ok" /\ runs = 1 /\ NoDescriptorsBefore
    /\ classes = {"Test", "AnotherTest"}

\* C7: after a successful build with a configured output directory, that
\* directory exists and holds the manifest and every descriptor.
C7_ConfiguredDirUsed ==
    (gpc = "ok" /\ cfg.godot_resource_output_dir # {}) =>
        LET d == Unwrap(cfg.godot_resource_output_dir)
        IN  /\ d \in dirs
            /\ GdnlibPath(cfg, d) \in DOMAIN files
            /\ \A n \in classes : GdnsPath(d, n) \in DOMAIN files

\* The files a build is to leave, and what an uninterrupted build on the
\* first disk leaves in each: what was there, or else what build renders.
TargetPaths == {ManifestPath} \cup {GdnsPath(outDir, n) : n \in classes}

UninterruptedContent(p) ==
    IF p \in DOMAIN files0 THEN files0[p]
    ELSE IF p = ManifestPath THEN GdnlibContent(cfg)
    ELSE GdnsContent(cfg, outDir, CHOOSE n \in classes : GdnsPath(outDir, n) = p)

AllOnDisk ==
    \A p \in TargetPaths : p \in DOMAIN files /\ files[p] = UninterruptedContent(p)

\* The previous run was killed, and every kill so far fell between two
\* writes, none inside one.
KilledBetweenWrites == lastEnd = "killed" /\ tornPaths = {}

\* The running build follows a run that was killed between two writes.
Rerun == KilledBetweenWrites /\ gpc \in {"manifest", "descriptors", "writing"}

NothingInTheWay == \A p \in TargetPaths : p \notin dirs

\* C9: a rerun after a run interrupted between two writes, itself not
\* interrupted and with no directory in the place of a file, ends
\* successfully; when such a rerun ends successfully the manifest and a
\* descriptor for every name are on disk with the contents of an
\* uninterrupted run; and the rerun changes no file that was there when it
\* started.
C9_RerunCompletes ==
    /\ (Rerun /\ interrupts = MaxInterrupts /\ NothingInTheWay) ~> (gpc = "ok")
    /\ []((KilledBetweenWrites /\ gpc = "ok") => AllOnDisk)
    /\ [](KilledBetweenWrites =>
             \A p \in DOMAIN filesAtStart :
                 p \in DOMAIN files /\ files[p] = filesAtStart[p])

\* A rerun ended successfully; the killed run had written a file and the
\* rerun wrote another.
C9_Witness ==
    /\ gpc = "ok" /\ KilledBetweenWrites
    /\ DOMAIN filesAtStart \ DOMAIN files0 # {}
    /\ DOMAIN files \ DOMAIN filesAtStart # {}

Keys(content, sec) == {l.key : l \in {x \in Range(content) : x.sec = sec}}

\* C10: in a manifest build rendered, the dependencies section has a key for
\* exactly the platforms the entry section has a key for.
C10_DependenciesMatchEntries ==
    ManifestCreated =>
        Keys(files[ManifestPath], "dependencies") = Keys(files[ManifestPath], "entry")

\* The descriptors build has written: descriptor files that were not on the
\* disk before the first run and whose write has returned.
WrittenDescriptors ==
    {p \in DOMAIN files \ DOMAIN files0 : IsDescriptorPath(p) /\ WrittenWhole(p)}

\* The manifest lies under the project directory (and with it the descriptors,
\* which build puts next to it).
ManifestInProject == IsPrefixSeq(cfg.godot_project_dir.comps, ManifestPath.comps)

\* res:// and the manifest's path relative to the project directory.
RootRelativeManifest ==
    "res://" \o Text(SlashJoin(SubSeq(ManifestPath.comps, Len(cfg.godot_project_dir.comps) + 1,
                                      Len(ManifestPath.comps))))

\* The manifest's path relative to the directory of descriptor p, when the
\* manifest lies in or below that directory.
ManifestRelativeTo(p) ==
    Text(SlashJoin(SubSeq(ManifestPath.comps, Len(p.comps), Len(ManifestPath.comps))))

\* The manifest's absolute path, with forward slashes.
AbsoluteManifest == "/" \o Text(SlashJoin(ManifestPath.comps))

\* The path by which the descriptor at p refers to the manifest.
ManifestReference(p) == {Text(v) : v \in Field(files[p], "ext_resource", "path")}

\* C11 as stated: every descriptor build has written refers to the manifest by
\* its res:// path when both lie under the project directory, and otherwise by
\* a path relative to the descriptor's own directory.
C11_ReferenceRelativeOutside ==
    \A p \in WrittenDescriptors :
        ManifestReference(p) =
            {IF ManifestInProject THEN RootRelativeManifest ELSE ManifestRelativeTo(p)}

\* C11 amended: every descriptor build has written refers to the manifest by
\* its res:// path when both lie under the project directory, and otherwise by
\* the manifest's absolute path, without prefix.
C11_ReferenceAbsoluteOutside ==
    \A p \in WrittenDescriptors :
        ManifestReference(p) =
            {IF ManifestInProject THEN RootRelativeManifest ELSE AbsoluteManifest}

\* A finished build that wrote a descriptor into an output directory outside
\* the project.
C11_Witness ==
    /\ gpc = "ok"
    /\ ~ManifestInProject
    /\ WrittenDescriptors # {}

\* A finished build that wrote a descriptor into an output directory under
\* the project.
C11_WitnessInProject ==
    /\ gpc = "ok"
    /\ ManifestInProject
    /\ WrittenDescriptors # {}

\* ------------------------------------------------- the scanned source files

DeriveNativeClass(line) == Attr("derive", <<Group(<<Ident("NativeClass", line)>>, line)>>)

DeriveCloneNativeClass(line) ==
    Attr("derive", <<Group(<<Ident("Clone", line), Punct(",", line),
                             Ident("NativeClass", line)>>, line)>>)

DeriveQualified(line) ==
    Attr("derive", <<Group(<<Ident("gdnative", line), Punct(":", line), Punct(":", line),
                             Ident("NativeClass", line)>>, line)>>)

DeriveCloneDebug(line) ==
    Attr("derive", <<Group(<<Ident("Clone", line), Punct(",", line),
                             Ident("Debug", line)>>, line)>>)

InheritNativeClass(line) == Attr("inherit", <<Group(<<Ident("NativeClass", line)>>, line)>>)

\* #[derive = "x"]: the payload is no token group.
DeriveEquals(line) == Attr("derive", <<Punct("=", line), Literal("x", line)>>)

\* #[derive NativeClass]: the payload is a bare identifier.
DeriveBare(line) == Attr("derive", <<Ident("NativeClass", line)>>)

\* #[derive(NativeClass)] struct Test;
FileTop == ParsedFile(<<Item("struct", "Test", <<DeriveNativeClass(1)>>, <<>>)>>)

\* mod inner { #[derive(Clone, NativeClass)] enum MoreTest {} }  struct Plain;
FileNestedMod ==
    ParsedFile(<<Item("mod", "inner", <<>>,
                      <<Item("enum", "MoreTest", <<DeriveCloneNativeClass(2)>>, <<>>)>>),
                 Item("struct", "Plain", <<>>, <<>>)>>)

\* fn make() { #[inherit(NativeClass)] #[derive(gdnative::NativeClass)] struct EvenMoreTest; }
FileFnBody ==
    ParsedFile(<<Item("fn", "make", <<>>,
                      <<Item("struct", "EvenMoreTest",
                             <<InheritNativeClass(2), DeriveQualified(3)>>, <<>>)>>)>>)

\* Declarations that do not opt in: an unrelated derive list, a union, a
\* non-derive attribute naming the marker.
FileUnrelated ==
    ParsedFile(<<Item("struct", "Test", <<DeriveCloneDebug(1)>>, <<>>),
                 Item("union", "Raw", <<DeriveNativeClass(3)>>, <<>>),
                 Item("enum", "Tagged", <<InheritNativeClass(5)>>, <<>>)>>)

\* mod a { mod b { #[derive(Clone, Debug)] #[derive(NativeClass)] struct Test; }
\*         fn f() { #[derive(NativeClass)] enum MoreTest {} } }
FileDeep ==
    ParsedFile(<<Item("mod", "a", <<>>,
                      <<Item("mod", "b", <<>>,
                             <<Item("struct", "Test",
                                    <<DeriveCloneDebug(3), DeriveNativeClass(4)>>, <<>>)>>),
                        Item("fn", "f", <<>>,
                             <<Item("enum", "MoreTest", <<DeriveNativeClass(8)>>, <<>>)>>)>>)>>)

FileEmpty == ParsedFile(<<>>)

\* #[derive = "x"] struct Bad;
FileMalformed == ParsedFile(<<Item("struct", "Bad", <<DeriveEquals(1)>>, <<>>)>>)

\* #[derive(NativeClass)] struct Test;  #[derive NativeClass] enum BadOne {}
\* mod m { #[derive(NativeClass)] #[derive = "x"] struct BadTwo; }
FileMalformedTwo ==
    ParsedFile(<<Item("struct", "Test", <<DeriveNativeClass(1)>>, <<>>),
                 Item("enum", "BadOne", <<DeriveBare(3)>>, <<>>),
                 Item("mod", "m", <<>>,
                      <<Item("struct", "BadTwo",
                             <<DeriveNativeClass(6), DeriveEquals(7)>>, <<>>)>>)>>)

FileUnreadable == UnreadableFile("permission denied")

FileUnparsable == UnparsableFile("expected item")

FileUniverse ==
    {FileTop, FileNestedMod, FileFnBody, FileUnrelated, FileDeep, FileEmpty,
     FileMalformed, FileMalformedTwo, FileUnreadable, FileUnparsable}

\* What a walk can yield: the .rs files, a file with another extension (its
\* content would yield a name), a directory, and two failures of the walk.
WalkUniverse ==
    {WalkOk("rs", f) : f \in FileUniverse}
    \cup {WalkOk("txt", FileTop), WalkOk("", UnreadableFile("Is a directory"))}
    \cup {WalkErr("No such file or directory"), WalkErr("Too many levels of symbolic links")}

\* --------------------------------------------------------------- scan_crate

\* scan_crate is called: the walk of the directory is about to begin.
ScanInit ==
    /\ walk \in SeqsUpTo(WalkUniverse, MaxFiles)
    /\ wpos = 1
    /\ paths = <<>>
    /\ pos = 1
    /\ acc = {}
    /\ nread = 0
    /\ spc = "walk"
    /\ scanResult = Ok({})
    /\ pass = 1
    /\ firstResult = Ok({})

\* One turn of the for loop over the walk: an Err of the walk leaves
\* scan_crate at once with ScanError::WalkDir, a path with the extension rs is
\* pushed, any other path is passed over.
WalkStep ==
    /\ UNCHANGED genVars
    /\ spc = "walk"
    /\ wpos <= Len(walk)
    /\ LET e == walk[wpos]
       IN  IF e.err # ""
           THEN /\ scanResult' = Err("WalkDir", <<[msg |-> e.err, span |-> 0]>>)
                /\ spc' = "done"
                /\ UNCHANGED <<paths, wpos>>
           ELSE /\ paths' = IF e.ext = "rs" THEN Append(paths, e.file) ELSE paths
                /\ wpos' = wpos + 1
                /\ UNCHANGED <<spc, scanResult>>
    /\ UNCHANGED <<walk, pos, acc, nread, pass, firstResult>>

\* The walk is exhausted: the fold over the collected paths begins.
WalkEnd ==
    /\ UNCHANGED genVars
    /\ spc = "walk"
    /\ wpos > Len(walk)
    /\ spc' = "fold"
    /\ UNCHANGED <<walk, wpos, paths, pos, acc, nread, scanResult, pass, firstResult>>

\* One turn of map + try_fold: read, parse and search the next file; an Err
\* leaves the fold at once (the ? operators), an Ok extends the accumulator.
ScanStep ==
    /\ UNCHANGED genVars
    /\ spc = "fold"
    /\ pos <= Len(paths)
    /\ LET r == ProcessFile(paths[pos])
       IN  /\ nread' = nread + 1
           /\ IF r.ok
              THEN /\ acc' = FoldOk(acc, r.classes)
                   /\ pos' = pos + 1
                   /\ UNCHANGED <<spc, scanResult>>
              ELSE /\ scanResult' = Err(r.kind, r.msgs)
                   /\ spc' = "done"
                   /\ UNCHANGED <<acc, pos>>
    /\ UNCHANGED <<walk, wpos, paths, pass, firstResult>>

\* The iterator is exhausted: Ok(classes).
ScanReturn ==
    /\ UNCHANGED genVars
    /\ spc = "fold"
    /\ pos > Len(paths)
    /\ scanResult' = Ok(acc)
    /\ spc' = "done"
    /\ UNCHANGED <<walk, wpos, paths, pos, acc, nread, pass, firstResult>>

\* scan_crate is called again on the same directory, which the walk yields
\* in another order.
ScanAgain ==
    /\ UNCHANGED genVars
    /\ spc = "done"
    /\ pass < MaxPasses
    /\ \E p \in PermsOf(walk) : walk' = p
    /\ wpos' = 1
    /\ paths' = <<>>
    /\ pos' = 1
    /\ acc' = {}
    /\ nread' = 0
    /\ spc' = "walk"
    /\ pass' = pass + 1
    /\ firstResult' = IF pass = 1 THEN scanResult ELSE firstResult
    /\ UNCHANGED scanResult

ScanSpecInit == ScanInit /\ GenInit

ScanNext == WalkStep \/ WalkEnd \/ ScanStep \/ ScanReturn \/ ScanAgain

\* The scanner alone: scan_crate is called on a sequence of files.
ScanSpec == ScanSpecInit /\ [][ScanNext]_vars

\* ------------------------------------------------- properties of the scanner

\* Every declaration of a list of items, at any depth.
RECURSIVE DeclsOf(_)
DeclsOf(items) ==
    IF items = <<>> THEN {}
    ELSE {Head(items)} \cup DeclsOf(Head(items).items) \cup DeclsOf(Tail(items))

\* The walk met no failure.
WalkClean == \A i \in 1..Len(walk) : walk[i].err = ""

\* The source files of the scanned directory: the entries of the walk with
\* the extension rs, in walk order.
SourceEntries == SelectSeq(walk, LAMBDA e : e.err = "" /\ e.ext = "rs")

SourceFiles == [i \in 1..Len(SourceEntries) |-> SourceEntries[i].file]

AllDecls == UNION {DeclsOf(SourceFiles[i].items) : i \in 1..Len(SourceFiles)}

\* The declaration carries a derive attribute whose token list holds NativeClass.
CarriesMarker(d) ==
    \E a \in Range(d.attrs) :
        /\ a.path = "derive"
        /\ \E g \in Range(a.tokens) :
              \E tok \in Range(g.stream) : tok.t = "Ident" /\ tok.s = "NativeClass"

\* The declaration carries a derive attribute whose payload is no token group.
MalformedDerive(d) ==
    \E a \in Range(d.attrs) :
        a.path = "derive" /\ \E tok \in Range(a.tokens) : tok.t # "Group"

StructuralErrorFile(f) ==
    f.status = "ok" /\ \E d \in DeclsOf(f.items) : MalformedDerive(d)

CleanInput ==
    /\ WalkClean
    /\ \A i \in 1..Len(SourceFiles) :
          SourceFiles[i].status = "ok" /\ ~StructuralErrorFile(SourceFiles[i])

MarkedNames ==
    {d.ident : d \in {x \in AllDecls : x.kind \in {"struct", "enum"} /\ CarriesMarker(x)}}

\* C1: when every file reads and parses and no derive attribute is malformed,
\* scan_crate returns Ok of exactly the names of the struct and enum
\* declarations, at any depth, that carry a derive attribute naming
\* NativeClass; each name once.
C1_ScanExact == (spc = "done" /\ CleanInput) => scanResult = Ok(MarkedNames)

\* A finished scan of two clean files: a marked declaration nested in a module
\* or function body, a struct or enum that is not marked, and a marked name
\* that two files declare.
C1_Witness ==
    /\ spc = "done" /\ CleanInput /\ Len(SourceFiles) = 2
    /\ \E i \in 1..2 : \E top \in Range(SourceFiles[i].items) :
          \E d \in DeclsOf(top.items) : CarriesMarker(d) /\ d.ident \in scanResult.classes
    /\ \E d \in AllDecls : d.kind \in {"struct", "enum"} /\ ~CarriesMarker(d)
    /\ \E n \in scanResult.classes :
          \A i \in 1..2 : \E d \in DeclsOf(SourceFiles[i].items) : d.ident = n /\ CarriesMarker(d)

\* C2: when several files of a scan hold a structural error (and the walk
\* and every read and parse succeed), every file is scanned and the error
\* returned holds the structural errors of all of those files.
C2_AllStructuralErrorsReported ==
    (/\ spc = "done"
     /\ WalkClean
     /\ \A i \in 1..Len(SourceFiles) : SourceFiles[i].status = "ok"
     /\ Cardinality({i \in 1..Len(SourceFiles) : StructuralErrorFile(SourceFiles[i])}) >= 2)
    => /\ nread = Len(SourceFiles)
       /\ ~scanResult.ok
       /\ \A i \in 1..Len(SourceFiles) :
             StructuralErrorFile(SourceFiles[i]) =>
                 Range(FindClasses(SourceFiles[i]).msgs) \subseteq Range(scanResult.msgs)

\* C8 as stated: a scan of a permutation of the same files returns the same
\* result, errors included.
C8_OrderIndependent == (spc = "done" /\ pass > 1) => scanResult = firstResult

\* The first failure of the walk, in walk order.
FirstWalkFailure(i) ==
    /\ i \in 1..Len(walk)
    /\ walk[i].err # ""
    /\ \A j \in 1..(i - 1) : walk[j].err = ""

\* The first source file that fails, in walk order.
FirstFailing(i) ==
    /\ i \in 1..Len(SourceFiles)
    /\ ~ProcessFile(SourceFiles[i]).ok
    /\ \A j \in 1..(i - 1) : ProcessFile(SourceFiles[j]).ok

\* C8 amended: a scan of a permutation of the same files has the same
\* verdict and, on success, the same set of names; on failure the error
\* reported is the first failure of the walk, in the order walked, or, when
\* the walk met none, that of the first failing file of that order.
C8_SameVerdictAndNames ==
    (spc = "done" /\ pass > 1)
    => /\ scanResult.ok = firstResult.ok
       /\ scanResult.ok => scanResult.classes = firstResult.classes
       /\ (~scanResult.ok /\ ~WalkClean) =>
             \E i \in 1..Len(walk) :
                 /\ FirstWalkFailure(i)
                 /\ scanResult.kind = "WalkDir"
                 /\ scanResult.msgs = <<[msg |-> walk[i].err, span |-> 0]>>
       /\ (~scanResult.ok /\ WalkClean) =>
             \E i \in 1..Len(SourceFiles) :
                 FirstFailing(i) /\ scanResult = ProcessFile(SourceFiles[i])

\* A second scan, in another order, of two files that both yield names, and
\* one of two files that both fail.
C8_Witness ==
    /\ spc = "done" /\ pass > 1 /\ Len(SourceFiles) = 2 /\ SourceFiles[1] # SourceFiles[2]
    /\ scanResult.ok
    /\ \A i \in 1..2 : ProcessFile(SourceFiles[i]).classes # {}
    /\ ProcessFile(SourceFiles[1]).classes # ProcessFile(SourceFiles[2]).classes

====
